---- MODULE Spec2Model ----
(***************************************************************************)
(* Model of two pieces of the broid integrations repository:               *)
(*                                                                         *)
(*   - broid-slack  src/core/Parser.ts   (parse, validate and helpers)     *)
(*   - broid-kik    src/core/Adapter.ts  (connect, disconnect, listen,     *)
(*                                        send, user)                      *)
(*                                                                         *)
(* JavaScript values are represented as follows.                           *)
(*   - a string is a sequence of tokens (single characters, or one atomic  *)
(*     token for a piece whose inner structure is irrelevant);  '' is <<>>.*)
(*   - an object is a record with a field `keys` (the own keys of the      *)
(*     object), a field `nulls` (the keys whose value is null or           *)
(*     undefined) and one field per possible key.  The slot of a key that  *)
(*     is absent or nil holds the default value of its type.               *)
(***************************************************************************)
EXTENDS Integers, Sequences, FiniteSets, TLC

VARIABLES
    \* ---- broid-slack Parser ----
    generatorName,   \* Parser.generatorName
    serviceID,       \* Parser.serviceID
    now,             \* Date.now(), in milliseconds
    event,           \* argument of the last Parser.parse call
    parsed,          \* how the promise of the last Parser.parse call settled
    prev,            \* ts field and published of the activity parsed before
    vEvent,          \* argument of the last Parser.validate call
    vResult,         \* how the promise of the last Parser.validate call settled
    \* ---- broid-kik Adapter ----
    token,           \* Adapter.token; <<>> is null
    username,        \* Adapter.username
    webhookURL,      \* Adapter.webhookURL
    webhookServer,   \* Adapter.webhookServer: [exists, listening]
    connected,       \* Adapter.connected; FALSE while undefined
    session,         \* Adapter.session: 0 while undefined, else the number of
                     \* the KikBot instance
    storeUsers,      \* the keys of Adapter.storeUsers
    history,         \* the last calls of connect, disconnect and listen
    observable,      \* [returned, subscribed]: listen() returned an Observable,
                     \* the observer subscribed and the middleware is installed
    incoming,        \* the incoming messages in the middleware
    emitted,         \* the arguments of observer.next, for each message
    sending          \* the call of Adapter.send in progress

parserVars == <<generatorName, serviceID, now, event, parsed, prev, vEvent, vResult>>

adapterVars == <<token, username, webhookURL, webhookServer, connected, session,
                 storeUsers, history, observable, incoming, emitted, sending>>

vars == <<parserVars, adapterVars>>

-----------------------------------------------------------------------------
(* Bounds of the model *)

\* number of clock ticks the wall clock may advance
MaxTicks == 1

\* number of calls of connect, disconnect and listen the history keeps
HistoryLen == 3

\* number of incoming messages
MaxMessages == 2

\* milliseconds per clock tick
TickMs == 1500

\* the wall clock when the Parser is constructed, in milliseconds
StartMs == 20700

-----------------------------------------------------------------------------
(* JavaScript helpers *)

\* o[k] is null or undefined
Nil(o, k) == k \notin o.keys \/ k \in o.nulls

\* o[k], a string, is truthy
Truthy(o, k) == ~Nil(o, k) /\ o[k] # <<>>

\* String.prototype.startsWith
StartsWith(s, p) == Len(s) >= Len(p) /\ SubSeq(s, 1, Len(p)) = p

\* s.substr(1) followed by url.substring(0, url.length - 1)
StripEnds(s) ==
    LET u == IF s = <<>> THEN <<>> ELSE Tail(s)
    IN  IF u = <<>> THEN <<>> ELSE SubSeq(u, 1, Len(u) - 1)

\* ts.split('.')[0]
RECURSIVE BeforeDot(_)
BeforeDot(s) ==
    IF s = <<>> \/ Head(s) = "." THEN <<>>
    ELSE <<Head(s)>> \o BeforeDot(Tail(s))

\* what follows the first '.', or '' when there is none
RECURSIVE AfterDot(_)
AfterDot(s) ==
    IF s = <<>> THEN <<>>
    ELSE IF Head(s) = "." THEN Tail(s)
    ELSE AfterDot(Tail(s))

DigitValue(c) ==
    CASE c = "0" -> 0 [] c = "1" -> 1 [] c = "2" -> 2 [] c = "3" -> 3
      [] c = "4" -> 4 [] c = "5" -> 5 [] c = "6" -> 6 [] c = "7" -> 7
      [] c = "8" -> 8 [] c = "9" -> 9

\* Number(s) for a string of decimal digits; Number('') is 0
RECURSIVE Number(_)
Number(s) ==
    IF s = <<>> THEN 0
    ELSE 10 * Number(SubSeq(s, 1, Len(s) - 1)) + DigitValue(s[Len(s)])

-----------------------------------------------------------------------------
(* Values of the Slack parser *)

URL1 == "http://h/p"
UrlTokens == {URL1}

\* isUrl of @broid/utils: the string is exactly one URL
isUrl(s) == Len(s) = 1 /\ s[1] \in UrlTokens

NoComment == [isArray |-> FALSE, items |-> <<>>]

NoFile ==
    [keys |-> {}, nulls |-> {}, mimetype |-> <<>>, name |-> <<>>,
     permalink_public |-> <<>>, thumb_1024 |-> <<>>, initial_comment |-> NoComment]

NoUser == [keys |-> {}, nulls |-> {}, id |-> <<>>, name |-> <<>>, is_bot |-> FALSE]

NoChannel == [keys |-> {}, nulls |-> {}, id |-> <<>>, user |-> <<>>, is_im |-> FALSE]

\* the event null
NullMessage ==
    [nil |-> TRUE, keys |-> {}, nulls |-> {}, text |-> <<>>, ts |-> <<>>,
     thread_ts |-> <<>>, eventID |-> <<>>, file |-> NoFile, user |-> NoUser,
     channel |-> NoChannel, subtype |-> <<>>, callback_id |-> <<>>,
     response_url |-> <<>>, content |-> <<>>]

NoPart == [keys |-> {}, nulls |-> {}, id |-> <<>>, name |-> <<>>, type |-> <<>>]

NoObject ==
    [keys |-> {}, nulls |-> {}, id |-> <<>>, type |-> <<>>, content |-> <<>>,
     mediaType |-> <<>>, name |-> <<>>, url |-> <<>>, preview |-> <<>>,
     context |-> <<>>]

NoGenerator == [id |-> <<>>, name |-> <<>>, type |-> <<>>]

\* the activity null
NullActivity ==
    [nil |-> TRUE, keys |-> {}, nulls |-> {}, context |-> <<>>,
     generator |-> NoGenerator, published |-> 0, type |-> <<>>,
     actor |-> NoPart, target |-> NoPart, object |-> NoObject]

-----------------------------------------------------------------------------
(* cleanNulls of @broid/utils: drops, at every level, the keys whose value *)
(* is null or undefined                                                    *)

CleanKeys(o) == [o EXCEPT !.keys = o.keys \ o.nulls, !.nulls = {}]

cleanComment(ic) ==
    [ic EXCEPT !.items = [i \in DOMAIN ic.items |-> CleanKeys(ic.items[i])]]

cleanFile(f) ==
    [CleanKeys(f) EXCEPT !.initial_comment = cleanComment(f.initial_comment)]

cleanNulls(v) ==
    IF v.nil THEN v
    ELSE IF "file" \in DOMAIN v
    THEN [CleanKeys(v) EXCEPT !.file = cleanFile(v.file),
                              !.user = CleanKeys(v.user),
                              !.channel = CleanKeys(v.channel)]
    ELSE [CleanKeys(v) EXCEPT !.actor = CleanKeys(v.actor),
                              !.target = CleanKeys(v.target),
                              !.object = CleanKeys(v.object)]

\* R.isEmpty of an object
isEmptyObject(o) == o.keys = {}

-----------------------------------------------------------------------------
(* Parser.createActivityStream and Parser.ts2Timestamp *)

ts2Timestamp(ts) == (Number(BeforeDot(ts)) * 1000) \div 1000

\* normalized.thread_ts || normalized.ts ; '' stands for a falsy result
PlatformTs(normalized) ==
    IF Truthy(normalized, "thread_ts") THEN normalized.thread_ts
    ELSE IF Truthy(normalized, "ts") THEN normalized.ts
    ELSE <<>>

\* mutant: the generator's id and name exchanged
createActivityStream_Swapped(normalized, nowMs) ==
    LET ts == PlatformTs(normalized)
    IN  [nil |-> FALSE,
         keys |-> {"@context", "generator", "published", "type"},
         nulls |-> {},
         context |-> <<"https://www.w3.org/ns/activitystreams">>,
         generator |-> [id |-> generatorName, name |-> serviceID,
                        type |-> <<"Service">>],
         published |-> IF ts # <<>> THEN ts2Timestamp(ts) ELSE nowMs \div 1000,
         type |-> <<"Create">>,
         actor |-> NoPart, target |-> NoPart, object |-> NoObject]

createActivityStream(normalized, nowMs) ==
    LET ts == PlatformTs(normalized)
    IN  [nil |-> FALSE,
         keys |-> {"@context", "generator", "published", "type"},
         nulls |-> {},
         context |-> <<"https://www.w3.org/ns/activitystreams">>,
         generator |-> [id |-> serviceID, name |-> generatorName,
                        type |-> <<"Service">>],
         published |-> IF ts # <<>> THEN ts2Timestamp(ts) ELSE nowMs \div 1000,
         type |-> <<"Create">>,
         actor |-> NoPart, target |-> NoPart, object |-> NoObject]

-----------------------------------------------------------------------------
(* Parser.parseFile: [threw, isNull, a] *)

parseFile(attachment) ==
    LET ic  == attachment.initial_comment
        img == StartsWith(attachment.mimetype, <<"image">>)
        vid == StartsWith(attachment.mimetype, <<"video">>)
        a0  == [NoObject EXCEPT
                  !.keys = {"mediaType", "name", "type", "url", "content"}
                             \cup (IF Truthy(attachment, "thumb_1024")
                                   THEN {"preview"} ELSE {}),
                  !.nulls = {k \in {"name"} : Nil(attachment, "name")}
                              \cup {k \in {"url"} : Nil(attachment, "permalink_public")},
                  !.mediaType = attachment.mimetype,
                  !.name = attachment.name,
                  !.type = IF vid THEN <<"Video">> ELSE <<"Image">>,
                  !.url = attachment.permalink_public,
                  !.preview = IF Truthy(attachment, "thumb_1024")
                              THEN attachment.thumb_1024 ELSE <<>>]
    IN  IF Nil(attachment, "mimetype")
        THEN [threw |-> TRUE, isNull |-> FALSE, a |-> NoObject]
        ELSE IF ~(img \/ vid)
        THEN [threw |-> FALSE, isNull |-> TRUE, a |-> NoObject]
        ELSE IF Nil(attachment, "initial_comment") \/ ic.items = <<>>
        \* initial_comment.comment, or initial_comment[0].comment, of undefined
        THEN [threw |-> TRUE, isNull |-> FALSE, a |-> NoObject]
        ELSE [threw |-> FALSE, isNull |-> FALSE,
              a |-> [a0 EXCEPT !.content =
                        IF Truthy(ic.items[1], "comment")
                        THEN ic.items[1].comment ELSE <<>>]]

-----------------------------------------------------------------------------
(* Parser.parse *)

\* R.path([k1, k2], o) is null or undefined
PathNil(o, k1, k2) == Nil(o, k1) \/ Nil(o[k1], k2)

\* the actor of parse, lines 55-59
parseActor(normalized) ==
    [keys |-> {"id", "name", "type"},
     nulls |-> {k \in {"id", "name"} : PathNil(normalized, "user", k)},
     id |-> normalized.user.id,
     name |-> normalized.user.name,
     type |-> IF ~PathNil(normalized, "user", "is_bot") /\ normalized.user.is_bot
              THEN <<"Application">> ELSE <<"Person">>]

\* the target of parse, lines 61-65
parseTarget(normalized) ==
    LET idTruthy == ~PathNil(normalized, "channel", "id")
                    /\ normalized.channel.id # <<>>
    IN  [keys |-> {"id", "name", "type"},
         nulls |-> {k \in {"id"} : PathNil(normalized, "channel", "id")}
                   \cup {k \in {"name"} : ~idTruthy
                                          /\ PathNil(normalized, "channel", "user")},
         id |-> normalized.channel.id,
         name |-> IF idTruthy THEN normalized.channel.id
                  ELSE normalized.channel.user,
         type |-> IF ~PathNil(normalized, "channel", "is_im") /\ normalized.channel.is_im
                  THEN <<"Person">> ELSE <<"Group">>]

\* normalized.thread_ts || normalized.ts || this.createIdentifier()
threadIdentifier(normalized, uuid) ==
    IF PlatformTs(normalized) # <<>> THEN PlatformTs(normalized) ELSE uuid

\* the object built from fileInfo's answer, lines 74-92
urlObject(normalized, url, mediaType, uuid) ==
    LET fileType == IF StartsWith(mediaType, <<"image", "/">>) THEN <<"Image">>
                    ELSE IF StartsWith(mediaType, <<"video", "/">>) THEN <<"Video">>
                    ELSE <<>>
    IN  [NoObject EXCEPT
           !.keys = {"id", "mediaType", "type", "url"},
           !.nulls = {k \in {"type"} : fileType = <<>>},
           !.id = IF Truthy(normalized, "eventID") THEN normalized.eventID ELSE uuid,
           !.mediaType = mediaType,
           !.type = fileType,
           !.url = url]

\* the object built from a file attachment, lines 96-107
fileObject(normalized, a, uuid) ==
    [a EXCEPT !.keys = a.keys \cup {"id"},
              !.id = threadIdentifier(normalized, uuid)]

\* the first then of parse, lines 68-112: [threw, as2]
parseMedia(as2, normalized, mediaType, uuid) ==
    LET url == StripEnds(normalized.text)
        attachment == parseFile(normalized.file)
    IN  IF isUrl(url)
        THEN [threw |-> FALSE,
              as2 |-> [as2 EXCEPT !.keys = @ \cup {"object"},
                                  !.object = urlObject(normalized, url, mediaType, uuid)]]
        ELSE IF ~Nil(normalized, "file")
        THEN IF attachment.threw THEN [threw |-> TRUE, as2 |-> as2]
             ELSE IF attachment.isNull THEN [threw |-> FALSE, as2 |-> as2]
             ELSE [threw |-> FALSE,
                   as2 |-> [as2 EXCEPT !.keys = @ \cup {"object"},
                                       !.object = fileObject(normalized, attachment.a, uuid)]]
        ELSE [threw |-> FALSE, as2 |-> as2]

\* the second then of parse, lines 113-131
parseNote(as2, normalized, uuid) ==
    LET \* R.isEmpty(normalized.content): true of '', false of undefined
        contentEmpty == ~Nil(normalized, "content") /\ normalized.content = <<>>
        withNote ==
            IF "object" \notin as2.keys /\ ~contentEmpty
            THEN [as2 EXCEPT !.keys = @ \cup {"object"},
                             !.object = [NoObject EXCEPT
                                 !.keys = {"content", "id", "type"},
                                 !.content = normalized.text,
                                 !.id = threadIdentifier(normalized, uuid),
                                 !.type = <<"Note">>]]
            ELSE as2
        show(k) == IF Nil(normalized, k) THEN <<"undefined">> ELSE normalized[k]
    IN  IF "object" \in withNote.keys
           /\ ~Nil(normalized, "subtype")
           /\ normalized.subtype = <<"interactive_message">>
        THEN [withNote EXCEPT
                !.object.keys = @ \cup {"context"},
                !.object.context = show("callback_id") \o <<"#">> \o show("response_url")]
        ELSE withNote

Resolved(v) == [state |-> "resolved", value |-> v]

Rejected == [state |-> "rejected", value |-> NullActivity]

\* Parser.parse(event), where fileInfo answers mediaType, uuid.v4() answers
\* uuid and Date.now() answers nowMs
parse(ev, mediaType, uuid, nowMs) ==
    LET normalized == cleanNulls(ev)
        as0 == createActivityStream(normalized, nowMs)
        as1 == [as0 EXCEPT !.keys = @ \cup {"actor", "target"},
                           !.actor = parseActor(normalized),
                           !.target = parseTarget(normalized)]
        m   == parseMedia(as1, normalized, mediaType, uuid)
    IN  IF normalized.nil \/ isEmptyObject(normalized) THEN Resolved(NullActivity)
        ELSE IF ~Truthy(normalized, "text") THEN Resolved(NullActivity)
        ELSE IF m.threw THEN Rejected
        ELSE Resolved(parseNote(m.as2, normalized, uuid))

-----------------------------------------------------------------------------
(* Parser.validate *)

\* mutant: no catch after the schema check
validate_NoCatch(ev, schemaOk) ==
    LET parsedEv == cleanNulls(ev)
    IN  IF parsedEv.nil \/ isEmptyObject(parsedEv) THEN Resolved(NullActivity)
        ELSE IF ~Truthy(parsedEv, "type") THEN Resolved(NullActivity)
        ELSE IF schemaOk THEN Resolved(parsedEv)
        ELSE Rejected

\* Parser.validate(event), where schemas(parsed, 'activity') resolves iff
\* schemaOk
validate(ev, schemaOk) ==
    LET parsedEv == cleanNulls(ev)
    IN  IF parsedEv.nil \/ isEmptyObject(parsedEv) THEN Resolved(NullActivity)
        ELSE IF ~Truthy(parsedEv, "type") THEN Resolved(NullActivity)
        ELSE IF schemaOk THEN Resolved(parsedEv)
        ELSE Resolved(NullActivity)

-----------------------------------------------------------------------------
(* The normalized messages the model feeds to Parser.parse *)

Opt(st, v) == [st |-> st, v |-> v]

Absent == Opt("absent", <<>>)

NullValue == Opt("null", <<>>)

Comment(isArray, c) ==
    [isArray |-> isArray,
     items |-> <<[keys |-> {"comment"}, nulls |-> {}, comment |-> c]>>]

ImageFile ==
    [keys |-> {"mimetype", "name", "permalink_public", "thumb_1024", "initial_comment"},
     nulls |-> {}, mimetype |-> <<"image", "/", "png">>, name |-> <<"a.png">>,
     permalink_public |-> <<"http://s/a.png">>, thumb_1024 |-> <<"http://s/t.png">>,
     initial_comment |-> Comment(FALSE, <<"look">>)]

\* an image uploaded without a comment: Slack sends no initial_comment
BareImageFile ==
    [keys |-> {"mimetype", "name", "permalink_public"},
     nulls |-> {}, mimetype |-> <<"image", "/", "png">>, name |-> <<"b.png">>,
     permalink_public |-> <<"http://s/b.png">>, thumb_1024 |-> <<>>,
     initial_comment |-> NoComment]

VideoFile ==
    [keys |-> {"mimetype", "name", "permalink_public", "initial_comment"},
     nulls |-> {"name"}, mimetype |-> <<"video", "/", "mp4">>, name |-> <<>>,
     permalink_public |-> <<"http://s/v.mp4">>, thumb_1024 |-> <<>>,
     initial_comment |-> Comment(TRUE, <<>>)]

PdfFile ==
    [keys |-> {"mimetype", "name", "permalink_public", "initial_comment"},
     nulls |-> {}, mimetype |-> <<"application", "/", "pdf">>, name |-> <<"c.pdf">>,
     permalink_public |-> <<"http://s/c.pdf">>, thumb_1024 |-> <<>>,
     initial_comment |-> Comment(FALSE, <<"read">>)]

TextOpts ==
    {Absent, Opt("set", <<>>), Opt("set", <<"h", "i">>),
     Opt("set", <<"<", URL1, ">">>)}

\* ts and thread_ts together: no timestamp, two messages outside a thread,
\* and a later reply in the thread that the message of ts 5.0 started
TsOpts ==
    {[ts |-> Absent, thread_ts |-> Absent],
     [ts |-> Opt("set", <<"1", "0", ".", "5">>), thread_ts |-> Absent],
     [ts |-> Opt("set", <<"1", "1", ".", "0">>), thread_ts |-> Absent],
     [ts |-> Opt("set", <<"1", "2", ".", "0">>),
      thread_ts |-> Opt("set", <<"5", ".", "0">>)]}

FileOpts ==
    {Opt("absent", NoFile), Opt("set", ImageFile), Opt("set", BareImageFile),
     Opt("set", VideoFile), Opt("set", PdfFile)}

BotUser ==
    [keys |-> {"id", "is_bot"}, nulls |-> {}, id |-> <<"U1">>, name |-> <<>>,
     is_bot |-> TRUE]

DirectChannel ==
    [keys |-> {"id", "user", "is_im"}, nulls |-> {"id"}, id |-> <<>>,
     user |-> <<"U1">>, is_im |-> TRUE]

\* the remaining fields together: all missing, or an interactive message of a
\* bot in a direct channel
RestOpts ==
    {[user |-> Opt("absent", NoUser), channel |-> Opt("absent", NoChannel),
      eventID |-> Absent, subtype |-> Absent, callback_id |-> Absent,
      response_url |-> Absent],
     [user |-> Opt("set", BotUser), channel |-> Opt("set", DirectChannel),
      eventID |-> Opt("set", <<"ev1">>),
      subtype |-> Opt("set", <<"interactive_message">>),
      callback_id |-> Opt("set", <<"cb">>), response_url |-> NullValue]}

MessageFields ==
    {"text", "ts", "thread_ts", "eventID", "file", "user", "channel", "subtype",
     "callback_id", "response_url", "content"}

MkMessage(o) ==
    [nil |-> FALSE,
     keys |-> {k \in MessageFields : o[k].st # "absent"},
     nulls |-> {k \in MessageFields : o[k].st = "null"},
     text |-> o.text.v, ts |-> o.ts.v, thread_ts |-> o.thread_ts.v,
     eventID |-> o.eventID.v, file |-> o.file.v, user |-> o.user.v,
     channel |-> o.channel.v, subtype |-> o.subtype.v,
     callback_id |-> o.callback_id.v, response_url |-> o.response_url.v,
     content |-> o.content.v]

Message(t, ts, f, r, c) ==
    MkMessage([text |-> t, ts |-> ts.ts, thread_ts |-> ts.thread_ts, file |-> f,
               eventID |-> r.eventID, user |-> r.user, channel |-> r.channel,
               subtype |-> r.subtype, callback_id |-> r.callback_id,
               response_url |-> r.response_url, content |-> c])

PlainRest == CHOOSE r \in RestOpts : r.subtype = Absent

NoTs == CHOOSE ts \in TsOpts : ts.ts = Absent

\* null, { text: null }, and messages that carry a content field
SpecialMessages ==
    {NullMessage,
     Message(NullValue, NoTs, Opt("absent", NoFile), PlainRest, Absent),
     Message(Opt("set", <<"h", "i">>), NoTs, Opt("absent", NoFile), PlainRest,
             Opt("set", <<>>)),
     Message(Opt("set", <<"h", "i">>), NoTs, Opt("absent", NoFile), PlainRest,
             Opt("set", <<"c">>))}

Messages ==
    SpecialMessages \cup
    {Message(t, ts, f, r, Absent) :
        t \in TextOpts, ts \in TsOpts, f \in FileOpts, r \in RestOpts}

\* what fileInfo can answer as the mime type of a URL ('' when unknown)
MimeTypes ==
    {<<"image", "/", "png">>, <<"video", "/", "mp4">>, <<"text", "/", "html">>, <<>>}

UUID == <<"uuid">>

\* events given to Parser.validate besides the results of Parser.parse
EmptyActivity == [NullActivity EXCEPT !.nil = FALSE]

ExtraEvents ==
    {NullActivity, EmptyActivity,
     [EmptyActivity EXCEPT !.keys = {"type", "published"}, !.nulls = {"type"}],
     [EmptyActivity EXCEPT !.keys = {"type"}, !.type = <<>>]}

-----------------------------------------------------------------------------
(* broid-kik Adapter: construction *)

\* what the caller may pass as obj.token, obj.username and obj.webhookURL;
\* <<>> stands for a missing option
TokenOptions == {<<>>, <<"api-key">>}

UsernameOptions == {<<>>, <<"bot">>}

WebhookURLOptions == {<<"http://h/hook">>, <<"http://h/hook", "/">>}

\* obj.webhookURL.replace(/\/?$/, '/')
withTrailingSlash(u) == IF u # <<>> /\ u[Len(u)] = "/" THEN u ELSE u \o <<"/">>

NoCall == [op |-> "none", result |-> "none", shortcut |-> FALSE, created |-> FALSE,
           serverListen |-> FALSE, sessionAfter |-> FALSE, credentials |-> FALSE]

IdleMessage == [pc |-> "idle", from |-> "none", steps |-> <<>>, parsed |-> "none",
                validated |-> "none", nexts |-> 0]

NotSending == [pc |-> "idle", dataType |-> "none", buttons |-> FALSE, schema |-> "none",
               built |-> FALSE, keyboard |-> FALSE, sdkCalls |-> 0, outcome |-> "none"]

\* new Adapter(obj)
AdapterInit ==
    /\ token \in TokenOptions
    /\ username \in {IF u # <<>> THEN u ELSE <<"SMS">> : u \in UsernameOptions}
    /\ webhookURL \in {withTrailingSlash(u) : u \in WebhookURLOptions}
    /\ webhookServer \in {[exists |-> h, listening |-> FALSE] : h \in BOOLEAN}
    /\ connected = FALSE
    /\ session = 0
    /\ storeUsers = {}
    /\ history = <<>>
    /\ observable = [returned |-> FALSE, subscribed |-> FALSE]
    /\ incoming = [i \in 1..MaxMessages |-> IdleMessage]
    /\ emitted = [i \in 1..MaxMessages |-> <<>>]
    /\ sending = NotSending

\* one Adapter, for the behaviours in which only the Slack Parser acts
AdapterAtRest ==
    /\ AdapterInit
    /\ token = <<>>
    /\ username = <<"SMS">>
    /\ ~webhookServer.exists

-----------------------------------------------------------------------------
(* Adapter.connect, Adapter.disconnect, Adapter.listen *)

\* the history keeps the last HistoryLen calls
Remember(call) ==
    IF Len(history) < HistoryLen THEN Append(history, call)
    ELSE Append(Tail(history), call)

credentialsExist == token # <<>> /\ username # <<>> /\ webhookURL # <<>>

connect ==
    /\ IF connected
       THEN /\ UNCHANGED <<session, webhookServer, connected>>
            /\ history' = Remember([NoCall EXCEPT !.op = "connect",
                                      !.result = "connected", !.shortcut = TRUE,
                                      !.sessionAfter = session # 0,
                                      !.credentials = credentialsExist])
       ELSE IF ~credentialsExist
       THEN /\ UNCHANGED <<session, webhookServer, connected>>
            /\ history' = Remember([NoCall EXCEPT !.op = "connect",
                                      !.result = "Credentials should exist.",
                                      !.sessionAfter = session # 0])
       ELSE /\ session' = session + 1
            /\ webhookServer' = [webhookServer EXCEPT !.listening = @ \/ webhookServer.exists]
            /\ connected' = TRUE
            /\ history' = Remember([NoCall EXCEPT !.op = "connect",
                                      !.result = "connected", !.created = TRUE,
                                      !.serverListen = webhookServer.exists,
                                      !.sessionAfter = TRUE,
                                      !.credentials = TRUE])
    /\ UNCHANGED <<parserVars, token, username, webhookURL, storeUsers, observable,
                   incoming, emitted, sending>>

disconnect ==
    /\ connected' = TRUE
    /\ webhookServer' = [webhookServer EXCEPT !.listening = FALSE]
    /\ history' = Remember([NoCall EXCEPT !.op = "disconnect", !.result = "null",
                              !.sessionAfter = session # 0,
                              !.credentials = credentialsExist])
    /\ UNCHANGED <<parserVars, token, username, webhookURL, session, storeUsers,
                   observable, incoming, emitted, sending>>

listen ==
    /\ IF session = 0
       THEN /\ history' = Remember([NoCall EXCEPT !.op = "listen",
                                      !.result = "No session found.",
                                      !.credentials = credentialsExist])
            /\ UNCHANGED observable
       ELSE /\ history' = Remember([NoCall EXCEPT !.op = "listen",
                                      !.result = "observable",
                                      !.sessionAfter = TRUE,
                                      !.credentials = credentialsExist])
            /\ observable' = [observable EXCEPT !.returned = TRUE]
    /\ UNCHANGED <<parserVars, token, username, webhookURL, webhookServer, connected,
                   session, storeUsers, incoming, emitted, sending>>

\* the observer subscribes to the Observable of listen: session.use(middleware)
subscribe ==
    /\ observable.returned
    /\ ~observable.subscribed
    /\ observable' = [observable EXCEPT !.subscribed = TRUE]
    /\ UNCHANGED <<parserVars, token, username, webhookURL, webhookServer, connected,
                   session, storeUsers, history, incoming, emitted, sending>>

LifecycleNext == connect \/ disconnect \/ listen

-----------------------------------------------------------------------------
(* The middleware Adapter.listen installs, and Adapter.user *)

\* the senders of incoming messages: the keys of storeUsers
Users == {"alice"}

Step(i, m) == incoming' = [incoming EXCEPT ![i] = m]

\* the Kik session hands message i, sent by `from`, to the middleware, which
\* calls this.user(incoming.from, true)
user(i, from) ==
    /\ observable.subscribed
    /\ incoming[i].pc = "idle"
    /\ IF session = 0
       THEN Step(i, [incoming[i] EXCEPT !.pc = "failed", !.from = from,
                                         !.steps = <<"user">>])
       ELSE IF from \in storeUsers
       THEN Step(i, [incoming[i] EXCEPT !.pc = "normalize", !.from = from,
                                         !.steps = <<"user">>])
       ELSE Step(i, [incoming[i] EXCEPT !.pc = "getUserProfile", !.from = from,
                                         !.steps = <<"user">>])
    /\ UNCHANGED <<parserVars, token, username, webhookURL, webhookServer, connected,
                   session, storeUsers, history, observable, emitted, sending>>

\* the promise of session.getUserProfile(key) settles
getUserProfile(i, ok) ==
    /\ incoming[i].pc = "getUserProfile"
    /\ IF ok
       THEN /\ storeUsers' = storeUsers \cup {incoming[i].from}
            /\ Step(i, [incoming[i] EXCEPT !.pc = "normalize"])
       ELSE /\ UNCHANGED storeUsers
            /\ Step(i, [incoming[i] EXCEPT !.pc = "failed"])
    /\ UNCHANGED <<parserVars, token, username, webhookURL, webhookServer, connected,
                   session, history, observable, emitted, sending>>

\* .then((userInformation) => this.parser.normalize(incoming, userInformation))
normalize(i, ok) ==
    /\ incoming[i].pc = "normalize"
    /\ Step(i, [incoming[i] EXCEPT !.pc = IF ok THEN "parse" ELSE "failed",
                                      !.steps = Append(@, "normalize")])
    /\ UNCHANGED <<parserVars, token, username, webhookURL, webhookServer, connected,
                   session, storeUsers, history, observable, emitted, sending>>

\* .then((normalized) => this.parser.parse(normalized))
parseStep(i, result) ==
    /\ incoming[i].pc = "parse"
    /\ Step(i, [incoming[i] EXCEPT
                  !.pc = IF result = "rejected" THEN "failed" ELSE "validate",
                  !.parsed = result,
                  !.steps = Append(@, "parse")])
    /\ UNCHANGED <<parserVars, token, username, webhookURL, webhookServer, connected,
                   session, storeUsers, history, observable, emitted, sending>>

\* .then((parsed) => this.parser.validate(parsed)), which never rejects and
\* answers null for null
validateStep(i, result) ==
    /\ incoming[i].pc = "validate"
    /\ incoming[i].parsed = "null" => result = "null"
    /\ Step(i, [incoming[i] EXCEPT !.pc = "validated", !.validated = result,
                                      !.steps = Append(@, "validate")])
    /\ UNCHANGED <<parserVars, token, username, webhookURL, webhookServer, connected,
                   session, storeUsers, history, observable, emitted, sending>>

\* mutant: observer.next without the test of validated, on the parsed value
validated_EmitAlways(i) ==
    /\ incoming[i].pc = "validated"
    /\ emitted' = [emitted EXCEPT ![i] = Append(@, "parsed")]
    /\ Step(i, [incoming[i] EXCEPT !.pc = "done", !.nexts = @ + 1])
    /\ UNCHANGED <<parserVars, token, username, webhookURL, webhookServer, connected,
                   session, storeUsers, history, observable, sending>>

\* .then((validated) => { if (validated) { observer.next(validated); }
\*                        return next(); })
validated(i) ==
    /\ incoming[i].pc = "validated"
    /\ emitted' = IF incoming[i].validated = "activity"
                  THEN [emitted EXCEPT ![i] = Append(@, "validated")]
                  ELSE emitted
    /\ Step(i, [incoming[i] EXCEPT !.pc = "done", !.nexts = @ + 1])
    /\ UNCHANGED <<parserVars, token, username, webhookURL, webhookServer, connected,
                   session, storeUsers, history, observable, sending>>

MiddlewareNext ==
    \E i \in 1..MaxMessages :
        \/ \E from \in Users : user(i, from)
        \/ \E ok \in BOOLEAN : getUserProfile(i, ok)
        \/ \E ok \in BOOLEAN : normalize(i, ok)
        \/ \E result \in {"activity", "null", "rejected"} : parseStep(i, result)
        \/ \E result \in {"activity", "null"} : validateStep(i, result)
        \/ validated(i)

-----------------------------------------------------------------------------
(* Adapter.send *)

\* R.path(['object', 'type'], data); "none" when the path is missing
DataTypes == {"Note", "Image", "Video", "Collection", "none"}

\* send(data): schemas(data, 'send') is called
send(dataType, buttons) ==
    /\ sending.pc \in {"idle", "settled"}
    /\ sending' = [NotSending EXCEPT !.pc = "schemas", !.dataType = dataType,
                                     !.buttons = buttons]
    /\ UNCHANGED <<parserVars, token, username, webhookURL, webhookServer, connected,
                   session, storeUsers, history, observable, incoming, emitted>>

\* what the then of schemas does with a message content: session.send
sendContent(call) ==
    IF session = 0
    THEN [call EXCEPT !.pc = "settled", !.schema = "ok", !.built = TRUE,
                      !.keyboard = call.buttons, !.outcome = "TypeError"]
    ELSE [call EXCEPT !.pc = "session.send", !.schema = "ok", !.built = TRUE,
                      !.keyboard = call.buttons, !.sdkCalls = @ + 1]

\* mutant: a text message is built for every other type too
schemasSettled_AnyType(ok) ==
    /\ sending.pc = "schemas"
    /\ sending' = IF ~ok
                  THEN [sending EXCEPT !.pc = "settled", !.schema = "failed",
                                       !.outcome = "schema error"]
                  ELSE sendContent(sending)
    /\ UNCHANGED <<parserVars, token, username, webhookURL, webhookServer, connected,
                   session, storeUsers, history, observable, incoming, emitted>>

\* the promise of schemas(data, 'send') settles; on success the message is
\* built and handed to session.send
schemasSettled(ok) ==
    /\ sending.pc = "schemas"
    /\ sending' = IF ~ok
                  THEN [sending EXCEPT !.pc = "settled", !.schema = "failed",
                                       !.outcome = "schema error"]
                  ELSE IF sending.dataType \in {"Image", "Video", "Note"}
                  THEN sendContent(sending)
                  ELSE [sending EXCEPT
                          !.pc = "settled", !.schema = "ok",
                          !.outcome = "Only Note, Image, and Video are supported."]
    /\ UNCHANGED <<parserVars, token, username, webhookURL, webhookServer, connected,
                   session, storeUsers, history, observable, incoming, emitted>>

\* the promise of session.send(content, toID) settles
sessionSendSettled(ok) ==
    /\ sending.pc = "session.send"
    /\ sending' = [sending EXCEPT !.pc = "settled",
                                  !.outcome = IF ok THEN "sent" ELSE "send error"]
    /\ UNCHANGED <<parserVars, token, username, webhookURL, webhookServer, connected,
                   session, storeUsers, history, observable, incoming, emitted>>

SendNext ==
    \/ \E dataType \in DataTypes, buttons \in BOOLEAN : send(dataType, buttons)
    \/ \E ok \in BOOLEAN : schemasSettled(ok)
    \/ \E ok \in BOOLEAN : sessionSendSettled(ok)

-----------------------------------------------------------------------------
(* Parser.parse as a state machine: calls of parse, each run to the        *)
(* settling of its promise, until two activities have been produced        *)

NoPrev == [set |-> FALSE, ts |-> <<>>, published |-> 0]

NotValidated == [called |-> FALSE, schemaOk |-> FALSE, state |-> "none",
                 value |-> NullActivity]

NotParsed == [state |-> "none", value |-> NullActivity]

ServiceNames == {<<"slack">>, <<"team">>}

ServiceIDs == {<<"id-1">>}

\* new Parser(serviceName, serviceID, logLevel)
ParserInit ==
    /\ generatorName \in ServiceNames
    /\ serviceID \in ServiceIDs
    /\ now = StartMs
    /\ event = NullMessage
    /\ parsed = NotParsed
    /\ prev = NoPrev
    /\ vEvent = NullActivity
    /\ vResult = NotValidated
    /\ AdapterAtRest

\* the activity a settled promise carries, if any
IsActivity(r) == r.state = "resolved" /\ ~r.value.nil

\* the wall clock advances
Tick ==
    /\ now < StartMs + MaxTicks * TickMs
    /\ now' = now + TickMs
    /\ UNCHANGED <<generatorName, serviceID, event, parsed, prev, vEvent, vResult,
                   adapterVars>>

\* a call of Parser.parse
Parse(ev, mediaType) ==
    /\ ~prev.set
    /\ event' = ev
    /\ parsed' = parse(ev, mediaType, UUID, now)
    /\ prev' = IF IsActivity(parsed)
               THEN [set |-> TRUE,
                     ts |-> IF Truthy(event, "ts") THEN event.ts ELSE <<>>,
                     published |-> parsed.value.published]
               ELSE prev
    /\ UNCHANGED <<generatorName, serviceID, now, vEvent, vResult, adapterVars>>

\* the answers of fileInfo parse can get for this message
MediaTypesOf(ev) ==
    IF ~ev.nil /\ isUrl(StripEnds(ev.text)) THEN MimeTypes ELSE {<<>>}

ParseNext ==
    \/ Tick
    \/ \E ev \in Messages : \E mediaType \in MediaTypesOf(ev) : Parse(ev, mediaType)

ParseSpec == ParserInit /\ [][ParseNext]_vars

-----------------------------------------------------------------------------
(* Parser.validate as a function of its argument: the initial state draws  *)
(* the event, the action applies validate to it                            *)

ValidateEvents ==
    ExtraEvents \cup
    {parse(ev, mediaType, UUID, StartMs).value :
        ev \in Messages, mediaType \in MimeTypes}

ValidateInit ==
    /\ generatorName \in ServiceNames
    /\ serviceID \in ServiceIDs
    /\ now = StartMs
    /\ event = NullMessage
    /\ parsed = NotParsed
    /\ prev = NoPrev
    /\ vEvent \in ValidateEvents
    /\ vResult = NotValidated
    /\ AdapterAtRest

\* a call of Parser.validate, run to the settling of its promise
Validate(schemaOk) ==
    /\ ~vResult.called
    /\ vResult' = [called |-> TRUE, schemaOk |-> schemaOk,
                   state |-> validate(vEvent, schemaOk).state,
                   value |-> validate(vEvent, schemaOk).value]
    /\ UNCHANGED <<generatorName, serviceID, now, event, parsed, prev, vEvent,
                   adapterVars>>

ValidateNext == \E schemaOk \in BOOLEAN : Validate(schemaOk)

ValidateSpec == ValidateInit /\ [][ValidateNext]_vars

-----------------------------------------------------------------------------
(* Properties of Parser.parse and Parser.validate *)

\* C1: every activity parse produces carries the generator
\* { id: serviceID, name: generatorName, type: 'Service' } of the Parser that
\* produced it, whatever the later steps of parse added to the activity.
C1_GeneratorIdentifiesService ==
    IsActivity(parsed) =>
        /\ "generator" \in parsed.value.keys \ parsed.value.nulls
        /\ parsed.value.generator.id = serviceID
        /\ parsed.value.generator.name = generatorName
        /\ parsed.value.generator.type = <<"Service">>

\* an activity to which parse added actor, target, a media object and the
\* context of an interactive message
C1_Witness ==
    /\ IsActivity(parsed)
    /\ {"actor", "target", "object"} \subseteq parsed.value.keys
    /\ parsed.value.object.type = <<"Image">>
    /\ "context" \in parsed.value.object.keys
    /\ parsed.value.generator.name = <<"team">>

\* the whole seconds of a Slack timestamp 'seconds.fraction'
WholeSeconds(ts) == Number(BeforeDot(ts))

\* ts a is not later than ts b (fractions of equal width)
TsNotLater(a, b) ==
    \/ WholeSeconds(a) < WholeSeconds(b)
    \/ WholeSeconds(a) = WholeSeconds(b) /\ Number(AfterDot(a)) <= Number(AfterDot(b))

\* C2: published is the whole-seconds part of the message's platform
\* timestamp whenever it has one, and of two parsed messages the one whose
\* ts is not later does not get the later published.
C2_PublishedFollowsTs ==
    IsActivity(parsed) =>
        /\ (Truthy(event, "ts") \/ Truthy(event, "thread_ts")) =>
              parsed.value.published \in
                  {WholeSeconds(event[k]) : k \in {f \in {"ts", "thread_ts"} : Truthy(event, f)}}
        /\ (prev.set /\ prev.ts # <<>> /\ Truthy(event, "ts")
              /\ TsNotLater(prev.ts, event.ts)) =>
              prev.published <= parsed.value.published

\* C5: validate never rejects; it resolves to null exactly when the cleaned
\* event is empty, has no type or fails the schema check, and otherwise to
\* the event without its null-valued keys.
C5_ValidateAlwaysResolves ==
    vResult.called =>
        LET live == vEvent.keys \ vEvent.nulls
            toNull == \/ vEvent.nil
                      \/ live = {}
                      \/ "type" \notin live
                      \/ vEvent.type = <<>>
                      \/ ~vResult.schemaOk
        IN  /\ vResult.state = "resolved"
            /\ vResult.value.nil <=> toNull
            /\ ~toNull =>
                 /\ vResult.value = cleanNulls(vEvent)
                 /\ vResult.value.keys = live
                 /\ vResult.value.nulls = {}
                 /\ vResult.value.actor.nulls = {}
                 /\ vResult.value.object.nulls = {}

\* validate resolved to an event from which it had to drop null-valued keys
C5_Witness ==
    /\ vResult.called
    /\ vResult.state = "resolved"
    /\ ~vResult.value.nil
    /\ vEvent.actor.nulls # {}
    /\ vResult.value.actor.keys = {"type"}

\* C6: the object of an activity parse produces has type Note, Image or
\* Video; an Image or Video has url and mediaType, a Note has content.
C6_ObjectIsNoteImageVideo ==
    (IsActivity(parsed) /\ "object" \in parsed.value.keys) =>
        LET o == parsed.value.object
        IN  /\ ~Nil(o, "type")
            /\ o.type \in {<<"Note">>, <<"Image">>, <<"Video">>}
            /\ o.type \in {<<"Image">>, <<"Video">>} =>
                   ~Nil(o, "url") /\ ~Nil(o, "mediaType")
            /\ o.type = <<"Note">> => ~Nil(o, "content")

\* C7: parse resolves to null exactly for a message that is empty after
\* cleaning or has no text; for any other message it resolves to an activity
\* with an object: the URL's when the text is a bracketed URL, else the image
\* or video attachment's, else a Note of the text.
C7_ParseResolvesWithObject ==
    parsed.state # "none" =>
        LET live == event.keys \ event.nulls
            toNull == event.nil \/ live = {} \/ "text" \notin live \/ event.text = <<>>
            bracketed == Len(event.text) = 3 /\ event.text[1] = "<"
                         /\ event.text[3] = ">" /\ event.text[2] \in UrlTokens
            media == "file" \in live /\ "mimetype" \in event.file.keys
                     /\ event.file.mimetype[1] \in {"image", "video"}
            o == parsed.value.object
        IN  /\ parsed.state = "resolved"
            /\ parsed.value.nil <=> toNull
            /\ ~toNull =>
                 /\ "object" \in parsed.value.keys
                 /\ bracketed => o.url = <<event.text[2]>>
                 /\ (~bracketed /\ media) => o.url = event.file.permalink_public
                 /\ (~bracketed /\ ~media) =>
                        o.type = <<"Note">> /\ o.content = event.text

-----------------------------------------------------------------------------
(* The Kik Adapter as a state machine *)

\* the Parser of the Slack integration does not act
ParserAtRest ==
    /\ generatorName = <<"slack">>
    /\ serviceID = <<"id-1">>
    /\ now = StartMs
    /\ event = NullMessage
    /\ parsed = NotParsed
    /\ prev = NoPrev
    /\ vEvent = NullActivity
    /\ vResult = NotValidated

AdapterSpecInit == ParserAtRest /\ AdapterInit

\* connect, disconnect and listen in any order
LifecycleSpec == AdapterSpecInit /\ [][LifecycleNext]_vars

\* the lifecycle together with the middleware
ListenNext == LifecycleNext \/ subscribe \/ MiddlewareNext

\* an Adapter with its own webhook server and the default username
ListenInit ==
    /\ AdapterSpecInit
    /\ username = <<"SMS">>
    /\ webhookServer.exists

ListenSpec == ListenInit /\ [][ListenNext]_vars

\* the lifecycle together with send
SendSpecNext == LifecycleNext \/ SendNext

SendSpec == AdapterSpecInit /\ [][SendSpecNext]_vars

-----------------------------------------------------------------------------
(* Properties of the Kik Adapter *)

IsPrefix(a, b) == Len(a) <= Len(b) /\ SubSeq(b, 1, Len(a)) = a

\* the calls of observer.next for message i
EmittedFor(i) == 1..Len(emitted[i])

\* C3: a message is handled only after the observer subscribed; its steps
\* run in the order user lookup, normalize, parse, validate; observer.next is
\* called for it at most once, only when validate answered an activity, and
\* with that activity; once the last callback ran, the message was emitted
\* exactly if validate answered an activity.
C3_PipelineOrderAndEmission ==
    \A i \in 1..MaxMessages :
        LET m == incoming[i]
        IN  /\ m.pc # "idle" => observable.subscribed
            /\ IsPrefix(m.steps, <<"user", "normalize", "parse", "validate">>)
            /\ Cardinality(EmittedFor(i)) <= 1
            /\ \A k \in EmittedFor(i) :
                   /\ m.validated = "activity"
                   /\ m.steps = <<"user", "normalize", "parse", "validate">>
                   /\ emitted[i][k] = "validated"
            /\ m.pc = "done" => (EmittedFor(i) # {} <=> m.validated = "activity")
            /\ m.pc = "failed" => EmittedFor(i) = {}

\* one message was emitted, and another went through every step, was
\* validated to null and was not emitted
C3_Witness ==
    \E i, j \in 1..MaxMessages :
        /\ incoming[i].pc = "done" /\ EmittedFor(i) # {}
        /\ incoming[j].pc = "done" /\ incoming[j].validated = "null"
        /\ incoming[j].parsed = "activity" /\ EmittedFor(j) = {}

\* C4: a call of send calls session.send at most once, and only after the
\* schema check succeeded and a message was built for a Note, an Image or a
\* Video; when the schema check fails, or the type is another one, the
\* promise rejects (with 'Only Note, Image, and Video are supported.' for
\* another type) and session.send is not called.
C4_SendOnlyValidatedSupported ==
    /\ sending.sdkCalls <= 1
    /\ sending.sdkCalls = 1 =>
          /\ sending.schema = "ok"
          /\ sending.built
          /\ sending.dataType \in {"Note", "Image", "Video"}
    /\ sending.schema = "failed" =>
          /\ sending.pc = "settled"
          /\ sending.outcome = "schema error"
          /\ sending.sdkCalls = 0
    /\ (sending.schema = "ok" /\ sending.dataType \notin {"Note", "Image", "Video"}) =>
          /\ sending.pc = "settled"
          /\ sending.outcome = "Only Note, Image, and Video are supported."
          /\ sending.sdkCalls = 0
    /\ sending.outcome = "sent" => sending.sdkCalls = 1

\* a Video with buttons was sent
C4_Witness ==
    /\ sending.pc = "settled"
    /\ sending.outcome = "sent"
    /\ sending.dataType = "Video"
    /\ sending.keyboard
    /\ sending.sdkCalls = 1

\* C8: whenever connect() reports connected a session exists; a listen()
\* after a connect() that reported connected does not fail with 'No session
\* found.'; a connect() without credentials fails with 'Credentials should
\* exist.' and neither creates a session nor starts the webhook server.
C8_ConnectedMeansSession ==
    \A k \in 1..Len(history) :
        LET c == history[k]
        IN  /\ (c.op = "connect" /\ c.result = "connected") => c.sessionAfter
            /\ (c.op = "listen"
                  /\ \E j \in 1..(k - 1) : history[j].op = "connect"
                                           /\ history[j].result = "connected") =>
                   c.result # "No session found."
            /\ (c.op = "connect" /\ ~credentialsExist) =>
                   /\ c.result = "Credentials should exist."
                   /\ ~c.created
                   /\ ~c.serverListen

\* C9: disconnect() leaves the Adapter not connected; the connect() of
\* connect(), disconnect(), connect() does not take the shortcut, creates the
\* session again and, with a webhook server, calls its listen() again.
C9_DisconnectThenReconnect ==
    /\ (history # <<>> /\ history[Len(history)].op = "disconnect") => ~connected
    /\ \A k \in 3..Len(history) :
          (/\ history[k - 2].op = "connect" /\ history[k - 2].result = "connected"
           /\ history[k - 1].op = "disconnect"
           /\ history[k].op = "connect") =>
              /\ ~history[k].shortcut
              /\ history[k].created
              /\ webhookServer.exists => history[k].serverListen

\* C10: once the promise chain of a message has settled, by its last
\* callback or by a rejection, next() was called exactly once; it is never
\* called more than once.
C10_NextCalledOnce ==
    \A i \in 1..MaxMessages :
        /\ incoming[i].nexts <= 1
        /\ incoming[i].pc \in {"done", "failed"} => incoming[i].nexts = 1

====
